---- MODULE Spec2Model ----
(***************************************************************************)
(* A model of superschema (src/src/index.js): the recursive pattern        *)
(* checker `check` (checkPattern) and the integration hook `extend`        *)
(* (extendSuperSchema), together with the part of the JavaScript runtime   *)
(* the two rely on (typeof, truthiness, property reads, ===, string        *)
(* conversion, split/join).                                                *)
(*                                                                         *)
(* Encoding of JavaScript values: a record [ref, t, v].  t is the kind of  *)
(* value, v its payload, ref the identity of a reference value (0 for      *)
(* primitives).  A string is held as the sequence of its space-free        *)
(* tokens, which is exactly what split(" ") returns and what join(" ")     *)
(* inverts; an object key is held as the sequence of its dot-free          *)
(* segments, which is what split(".") returns.                             *)
(***************************************************************************)
EXTENDS Integers, Sequences, FiniteSets, TLC

VARIABLES koInstance, typeCheckers, call, outcome, everExtended, lastLib, mark

vars == <<koInstance, typeCheckers, call, outcome, everExtended, lastLib, mark>>

(***************************************************************************)
(* JavaScript values                                                       *)
(***************************************************************************)
Undefined == [ref |-> 0, t |-> "undefined", v |-> <<>>]
Null == [ref |-> 0, t |-> "null", v |-> <<>>]
Bool(b) == [ref |-> 0, t |-> "boolean", v |-> b]
Num(n) == [ref |-> 0, t |-> "number", v |-> n]
\* a string, given by its space-free tokens: "array number" is <<"array", "number">>
Str(tokens) == [ref |-> 0, t |-> "string", v |-> tokens]
S1(token) == Str(<<token>>)
Arr(r, elements) == [ref |-> r, t |-> "array", v |-> elements]
\* an object literal: its properties in insertion order, each [k: key segments, p: value]
Obj(r, props) == [ref |-> r, t |-> "object", v |-> props]
P(key, value) == [k |-> <<key>>, p |-> value]
\* a function: what a call returns, and whether the real knockout made it (ko.observable)
Fun(r, ret, obs) == [ref |-> r, t |-> "function", v |-> [ret |-> ret, obs |-> obs]]
DateObj(r) == [ref |-> r, t |-> "date", v |-> <<>>]

\* typeof x
TypeOf(x) ==
    CASE x.t \in {"null", "array", "object", "date"} -> "object"
      [] OTHER -> x.t

\* ToBoolean(x): what `if (x)`, `!x` and `a || b` look at
Truthy(x) ==
    CASE x.t \in {"undefined", "null"} -> FALSE
      [] x.t = "boolean" -> x.v
      [] x.t = "number" -> x.v # 0
      [] x.t = "string" -> x.v # <<"">>
      [] OTHER -> TRUE

\* x == undefined, the loose comparison, which null satisfies too
LooseIsUndefined(x) == x.t \in {"undefined", "null"}

\* x === undefined
IsUndefined(x) == x.t = "undefined"

\* Array.isArray(x)
IsArray(x) == x.t = "array"

\* a === b
StrictEquals(a, b) ==
    /\ a.t = b.t
    /\ IF a.t \in {"undefined", "null", "boolean", "number", "string"}
       THEN a.v = b.v
       ELSE a.ref = b.ref

RECURSIVE Join(_, _)
\* seq.join(sep) of a sequence of strings
Join(seq, sep) ==
    IF seq = <<>> THEN ""
    ELSE IF Len(seq) = 1 THEN seq[1]
    ELSE seq[1] \o sep \o Join(Tail(seq), sep)

RECURSIVE ToStr(_)
\* String(x), as `"..." + x` and a property key use it
ToStr(x) ==
    CASE x.t = "undefined" -> "undefined"
      [] x.t = "null" -> "null"
      [] x.t = "boolean" -> (IF x.v THEN "true" ELSE "false")
      [] x.t = "number" -> ToString(x.v)
      [] x.t = "string" -> Join(x.v, " ")
      [] x.t = "array" ->
            Join([i \in 1..Len(x.v) |->
                    IF x.v[i].t \in {"undefined", "null"} THEN "" ELSE ToStr(x.v[i])], ",")
      [] x.t = "object" -> "[object Object]"
      [] x.t = "function" -> "function () { [code] }"
      [] OTHER -> "[date]"

\* pattern.split(" ")
SplitSpace(s) == s.v

\* tokens.join(" "): the empty list joins to the empty string
JoinSpace(tokens) == Str(IF tokens = <<>> THEN <<"">> ELSE tokens)

\* prop.split(".")
SplitDot(key) == key

\* the properties every object inherits from Object.prototype (a sample):
\* callable ones, and __proto__, which is an object and not callable
ObjectPrototype ==
    ("toString" :> "builtin") @@ ("constructor" :> "builtin") @@
    ("valueOf" :> "builtin") @@ ("hasOwnProperty" :> "builtin") @@
    ("__proto__" :> "notCallable")

BuiltinFunction == Fun(1, Undefined, FALSE)

\* what reading an inherited property gives: a built-in function, or for
\* __proto__ the prototype object itself
Inherited(key) ==
    IF key \notin DOMAIN ObjectPrototype THEN Undefined
    ELSE IF ObjectPrototype[key] = "builtin" THEN BuiltinFunction
    ELSE [ref |-> 8, t |-> "object", v |-> <<>>]

\* x[key] for x neither undefined nor null (reading those throws a TypeError)
Get(x, key) ==
    CASE x.t = "object" ->
            IF \E i \in 1..Len(x.v) : x.v[i].k = <<key>>
            THEN x.v[CHOOSE i \in 1..Len(x.v) : x.v[i].k = <<key>>].p
            ELSE Inherited(key)
      [] x.t = "array" ->
            IF \E i \in 1..Len(x.v) : ToString(i - 1) = key
            THEN x.v[CHOOSE i \in 1..Len(x.v) : ToString(i - 1) = key]
            ELSE IF key = "length" THEN Num(Len(x.v))
            ELSE Inherited(key)
      [] OTHER -> Undefined

\* the keys `for (var prop in x)` visits, in order
ForInKeys(x) ==
    CASE x.t = "object" -> [i \in 1..Len(x.v) |-> x.v[i].k]
      [] x.t = "array" -> [i \in 1..Len(x.v) |-> <<ToString(i - 1)>>]
      [] OTHER -> <<>>

\* x[prop] for a key for-in produced
GetOwn(x, prop) ==
    IF x.t = "object"
    THEN x.v[CHOOSE i \in 1..Len(x.v) : x.v[i].k = prop].p
    ELSE Get(x, prop[1])

(***************************************************************************)
(* Outcomes of a call: a normal return, or the one error it throws         *)
(***************************************************************************)
Pass == [kind |-> "pass", code |-> "", status |-> 0, msg |-> ""]

throwConfigError(message) ==
    [kind |-> "BackendError", code |-> "INVALID_CONFIG", status |-> 500, msg |-> message]

throwPatternError(message) ==
    [kind |-> "BackendError", code |-> "INVALID_INPUT_PATTERN", status |-> 400, msg |-> message]

\* an error the JavaScript runtime throws by itself
TypeError(message) ==
    [kind |-> "TypeError", code |-> "", status |-> 0, msg |-> message]

defaultName == "configObject"
nonRequiredName == "optional"
nullableName == "nullable"

(***************************************************************************)
(* Type registry and primitive checkers                                    *)
(***************************************************************************)
\* calling f with one argument: knockout's own isObservable recognises what
\* ko.observable made; any other function returns its fixed result
KoIsObservable == Fun(2, Undefined, FALSE)

CallResult(f, arg) ==
    IF f = KoIsObservable
    THEN Bool(arg.t = "function" /\ arg.v.obs)
    ELSE f.v.ret

\* the checker createSimpleTypeChecker(type) returns
createSimpleTypeChecker(type, value, name) ==
    IF TypeOf(value) # type
    THEN throwPatternError(name \o " should have " \o type \o " type!")
    ELSE Pass

checkArray(value, name) ==
    IF ~IsArray(value)
    THEN throwPatternError(name \o " has to be an array!")
    ELSE Pass

checkObservable(value, name) ==
    IF ~Truthy(koInstance)
    THEN throwConfigError("Observable checking is not possible because no knockout instance is given!")
    ELSE IF TypeOf(Get(koInstance, "isObservable")) # "function"
    THEN TypeError("koInstance.isObservable is not a function")
    ELSE IF ~Truthy(CallResult(Get(koInstance, "isObservable"), value))
    THEN throwPatternError(name \o " has to be an observable!")
    ELSE Pass

checkDate(value, name) ==
    IF value.t # "date"
    THEN throwPatternError(name \o " has to be a date object!")
    ELSE Pass

\* the registry object as the module builds it when it is loaded
InitialTypeCheckers ==
    [array |-> [fn |-> "checkArray", type |-> ""],
     boolean |-> [fn |-> "simple", type |-> "boolean"],
     date |-> [fn |-> "checkDate", type |-> ""],
     function |-> [fn |-> "simple", type |-> "function"],
     number |-> [fn |-> "simple", type |-> "number"],
     object |-> [fn |-> "simple", type |-> "object"],
     observable |-> [fn |-> "checkObservable", type |-> ""],
     string |-> [fn |-> "simple", type |-> "string"]]

NoChecker == [fn |-> "undefined", type |-> ""]

\* typeCheckers[type]: an own entry, else what the registry object inherits
LookupChecker(type) ==
    LET key == ToStr(type)
    IN  IF key \in DOMAIN typeCheckers THEN typeCheckers[key]
        ELSE IF key \in DOMAIN ObjectPrototype
        THEN [fn |-> ObjectPrototype[key], type |-> ""]
        ELSE NoChecker

\* typeCheckers[type](value, name)
RunChecker(checker, value, name) ==
    CASE checker.fn = "simple" -> createSimpleTypeChecker(checker.type, value, name)
      [] checker.fn = "checkArray" -> checkArray(value, name)
      [] checker.fn = "checkDate" -> checkDate(value, name)
      [] checker.fn = "checkObservable" -> checkObservable(value, name)
      [] checker.fn = "builtin" -> Pass
      [] OTHER -> TypeError("typeCheckers[type] is not a function")

checkType(value, type, name) ==
    IF LookupChecker(type) = NoChecker
    THEN throwConfigError("Unknown type: " \o ToStr(type))
    ELSE RunChecker(LookupChecker(type), value, name)

(***************************************************************************)
(* The two pattern engines and the dispatcher                              *)
(***************************************************************************)
RECURSIVE checkPattern(_, _, _)
RECURSIVE checkStringPattern(_, _, _)
RECURSIVE checkObjectPattern(_, _, _)
RECURSIVE checkShorthandPattern(_, _, _, _)
RECURSIVE ForEachString(_, _, _, _)
RECURSIVE ForEachElement(_, _, _, _)
RECURSIVE ForInPattern(_, _, _, _)
RECURSIVE WalkKeys(_, _, _, _)

\* pattern.split(" ").slice(1).join(" ")
RemainingPattern(pattern) == JoinSpace(Tail(SplitSpace(pattern)))

\* the element's position counted from 1 instead of its index
ElementNameFromOne(name, index) == name \o "[" \o ToString(index + 1) \o "]"

\* name + "[" + index + "]", index counted from 0
ElementName(name, index) == name \o "[" \o ToString(index) \o "]"

\* item.forEach of checkStringPattern, from the i-th element on: the first
\* error thrown ends the loop
ForEachString(item, remainingPattern, name, i) ==
    IF i > Len(item.v) THEN Pass
    ELSE LET r == checkStringPattern(item.v[i], remainingPattern, ElementName(name, i - 1))
         IN  IF r # Pass THEN r
             ELSE ForEachString(item, remainingPattern, name, i + 1)

checkStringPattern(item, pattern, name) ==
    LET currentType == SplitSpace(pattern)[1]
        remainingPattern == RemainingPattern(pattern)
    IN  IF currentType = nonRequiredName
        THEN IF IsUndefined(item) THEN Pass
             ELSE checkStringPattern(item, remainingPattern, name)
        ELSE IF currentType = nullableName
        THEN IF item = Null THEN Pass
             ELSE checkStringPattern(item, remainingPattern, name)
        ELSE IF IsUndefined(item)
        THEN throwPatternError(name \o " is mandatory!")
        ELSE IF item = Null
        THEN throwPatternError(name \o " shouldn't be null!")
        ELSE IF checkType(item, S1(currentType), name) # Pass
        THEN checkType(item, S1(currentType), name)
        ELSE IF Truthy(remainingPattern)
        THEN IF currentType = "array"
             THEN ForEachString(item, remainingPattern, name, 1)
             ELSE IF currentType = "observable"
             THEN IF TypeOf(item) # "function"
                  THEN TypeError("item is not a function")
                  ELSE checkStringPattern(CallResult(item, Undefined), remainingPattern,
                                          name \o "()")
             ELSE throwConfigError("Invalid pattern: " \o ToStr(pattern))
        ELSE Pass

RECURSIVE checkAllowedValues(_, _, _)
\* the loop over values runs on the values not yet compared
checkAllowedValues(item, values, name) ==
    IF Len(values.v) = 0
    THEN throwPatternError("The value of " \o name \o " is not among the allowed ones!")
    ELSE IF StrictEquals(item, values.v[1]) THEN Pass
    ELSE checkAllowedValues(item, Arr(values.ref, Tail(values.v)), name)

\* item.forEach of checkObjectPattern's array case
ForEachElement(item, elements, name, i) ==
    IF i > Len(item.v) THEN Pass
    ELSE LET r == checkPattern(item.v[i], elements, ElementName(name, i - 1))
         IN  IF r # Pass THEN r
             ELSE ForEachElement(item, elements, name, i + 1)

\* the keys the object case does not treat as field paths
SkippedKeys == {<<"__type">>, <<"__required">>, <<"__nullable">>}

\* for (var prop in pattern) of checkObjectPattern's object case, from the
\* i-th key on
ForInPattern(item, pattern, name, i) ==
    IF i > Len(ForInKeys(pattern)) THEN Pass
    ELSE LET prop == ForInKeys(pattern)[i]
             r == IF prop \in SkippedKeys THEN Pass
                  ELSE checkShorthandPattern(item, prop, GetOwn(pattern, prop), name)
         IN  IF r # Pass THEN r
             ELSE ForInPattern(item, pattern, name, i + 1)

checkObjectPattern(item, pattern, name) ==
    IF pattern = Null
    THEN IF IsUndefined(item)
         THEN TypeError("Cannot read property '__required' of null")
         ELSE IF item = Null
         THEN TypeError("Cannot read property '__nullable' of null")
         ELSE TypeError("Cannot read property '__allowedValues' of null")
    ELSE IF IsUndefined(item)
    THEN IF Get(pattern, "__required") # Bool(FALSE)
         THEN throwPatternError(name \o " is mandatory!")
         ELSE Pass
    ELSE IF item = Null
    THEN IF Get(pattern, "__nullable") # Bool(TRUE)
         THEN throwPatternError(name \o " shouldn't be null!")
         ELSE Pass
    ELSE LET allowedValues == Get(pattern, "__allowedValues")
             type == IF Truthy(Get(pattern, "__type")) THEN Get(pattern, "__type")
                     ELSE S1("object")
         IN  IF Truthy(allowedValues)
             THEN IF ~IsArray(allowedValues)
                  THEN throwConfigError("Invalid pattern: the __allowedValues property always has to be an array!")
                  ELSE checkAllowedValues(item, allowedValues, name)
             ELSE IF checkType(item, type, name) # Pass
             THEN checkType(item, type, name)
             ELSE IF type = S1("array")
             THEN IF Get(pattern, "__elements") # Undefined
                  THEN ForEachElement(item, Get(pattern, "__elements"), name, 1)
                  ELSE Pass
             ELSE IF type = S1("object")
             THEN ForInPattern(item, pattern, name, 1)
             ELSE IF type = S1("observable")
             THEN IF Truthy(Get(pattern, "__value"))
                  THEN IF TypeOf(item) # "function"
                       THEN TypeError("item is not a function")
                       ELSE checkPattern(CallResult(item, Undefined), Get(pattern, "__value"),
                                         name \o "()")
                  ELSE Pass
             ELSE Pass

\* keys.forEach of checkShorthandPattern from the i-th segment on, then the
\* check of the resolved value
WalkKeys(current, keys, pattern, name) ==
    IF keys = <<>> THEN checkPattern(current, pattern, name)
    ELSE IF TypeOf(current) # "object"
    THEN throwPatternError(name \o " should have object type!")
    ELSE IF current = Null
    THEN TypeError("Cannot read property '" \o Head(keys) \o "' of null")
    ELSE WalkKeys(Get(current, Head(keys)), Tail(keys), pattern, name \o "." \o Head(keys))

checkShorthandPattern(item, prop, pattern, name) ==
    WalkKeys(item, SplitDot(prop), pattern, name)

checkPattern(item, pattern, name) ==
    IF TypeOf(pattern) = "object"
    THEN checkObjectPattern(item, pattern, IF name = "" THEN defaultName ELSE name)
    ELSE IF TypeOf(pattern) = "string"
    THEN checkStringPattern(item, pattern, IF name = "" THEN defaultName ELSE name)
    ELSE throwConfigError("Invalid pattern: " \o ToStr(pattern))

(***************************************************************************)
(* The integration hook                                                    *)
(***************************************************************************)
\* config.knockout || config.ko, for a config that has properties
SuppliedLibrary(config) ==
    IF Truthy(Get(config, "knockout")) THEN Get(config, "knockout") ELSE Get(config, "ko")

\* extend that assigns the handle before it has validated the library
extendStoresBeforeValidating(config) ==
    IF TypeOf(config) # "object"
    THEN [outcome |-> throwConfigError("'config' has to be an object!"), ko |-> koInstance]
    ELSE IF config = Null
    THEN [outcome |-> TypeError("Cannot read property 'knockout' of null"), ko |-> koInstance]
    ELSE IF ~Truthy(SuppliedLibrary(config))
    THEN [outcome |-> throwConfigError("superschema.extend called without any known parameters!"),
          ko |-> SuppliedLibrary(config)]
    ELSE IF \/ TypeOf(SuppliedLibrary(config)) # "object"
            \/ TypeOf(Get(SuppliedLibrary(config), "isObservable")) # "function"
    THEN [outcome |-> throwConfigError("Invalid 'knockout' parameter given!"),
          ko |-> SuppliedLibrary(config)]
    ELSE [outcome |-> Pass, ko |-> SuppliedLibrary(config)]

\* extend that keeps the first library registered and ignores later ones
extendFirstWriteWins(config) ==
    IF TypeOf(config) # "object"
    THEN [outcome |-> throwConfigError("'config' has to be an object!"), ko |-> koInstance]
    ELSE IF config = Null
    THEN [outcome |-> TypeError("Cannot read property 'knockout' of null"), ko |-> koInstance]
    ELSE IF ~Truthy(SuppliedLibrary(config))
    THEN [outcome |-> throwConfigError("superschema.extend called without any known parameters!"),
          ko |-> koInstance]
    ELSE IF \/ TypeOf(SuppliedLibrary(config)) # "object"
            \/ TypeOf(Get(SuppliedLibrary(config), "isObservable")) # "function"
    THEN [outcome |-> throwConfigError("Invalid 'knockout' parameter given!"), ko |-> koInstance]
    ELSE [outcome |-> Pass,
          ko |-> IF Truthy(koInstance) THEN koInstance ELSE SuppliedLibrary(config)]

\* extend(config): the outcome, and the handle koInstance holds afterwards
extendSuperSchema(config) ==
    IF TypeOf(config) # "object"
    THEN [outcome |-> throwConfigError("'config' has to be an object!"), ko |-> koInstance]
    ELSE IF config = Null
    THEN [outcome |-> TypeError("Cannot read property 'knockout' of null"), ko |-> koInstance]
    ELSE IF ~Truthy(SuppliedLibrary(config))
    THEN [outcome |-> throwConfigError("superschema.extend called without any known parameters!"),
          ko |-> koInstance]
    ELSE IF \/ TypeOf(SuppliedLibrary(config)) # "object"
            \/ TypeOf(Get(SuppliedLibrary(config), "isObservable")) # "function"
    THEN [outcome |-> throwConfigError("Invalid 'knockout' parameter given!"), ko |-> koInstance]
    ELSE [outcome |-> Pass, ko |-> SuppliedLibrary(config)]

(***************************************************************************)
(* Inputs                                                                  *)
(***************************************************************************)
\* longest prefix of optional/nullable modifiers the generated patterns carry
MaxMods == 2

\* the real library, a stub that calls everything observable, one that calls nothing so
KnockoutLib == Obj(3, <<P("isObservable", KoIsObservable)>>)
StubLib == Obj(4, <<P("isObservable", Fun(5, Bool(TRUE), FALSE))>>)
DenyLib == Obj(6, <<P("isObservable", Fun(7, Bool(FALSE), FALSE))>>)

Configs ==
    { Undefined, Null, Num(5), S1("knockout"), Obj(40, <<>>),
      Obj(41, <<P("knockout", KnockoutLib)>>),
      Obj(42, <<P("ko", StubLib)>>),
      Obj(43, <<P("knockout", DenyLib)>>),
      Obj(44, <<P("knockout", Num(0)), P("ko", KnockoutLib)>>),
      Obj(45, <<P("knockout", Obj(46, <<>>))>>),
      Obj(47, <<P("knockout", Obj(48, <<P("isObservable", Bool(TRUE))>>))>>),
      Obj(49, <<P("knockout", S1("ko")), P("ko", KnockoutLib)>>),
      Obj(50, <<P("knockout", Fun(51, Undefined, FALSE))>>) }

ObsX == Fun(30, S1("x"), TRUE)
ObsFive == Fun(31, Num(5), TRUE)
PlainFunction == Fun(32, S1("x"), FALSE)

Values ==
    { Undefined, Null, Num(5), Num(2), S1("x"), Bool(TRUE),
      Arr(10, <<Num(1), Num(2)>>),
      Arr(11, <<Num(1), S1("a"), Bool(TRUE)>>),
      Arr(12, <<>>),
      Arr(13, <<ObsX, ObsFive>>),
      Obj(20, <<P("a", Obj(21, <<P("b", S1("x"))>>))>>),
      Obj(22, <<P("a", Obj(23, <<P("b", Num(5))>>))>>),
      Obj(24, <<P("a", S1("notAnObject"))>>),
      Obj(25, <<P("a", Null)>>),
      Obj(26, <<>>),
      Obj(27, <<P("a", S1("x")), P("__elements", S1("y"))>>),
      ObsX, ObsFive, PlainFunction, DateObj(33) }

Names == {"", "cfg"}

RECURSIVE ModifierPrefixes(_)
\* the sequences of at most n modifiers
ModifierPrefixes(n) ==
    IF n = 0 THEN {<<>>}
    ELSE ModifierPrefixes(n - 1) \cup
         {<<m>> \o s : m \in {nonRequiredName, nullableName},
                       s \in {q \in ModifierPrefixes(n - 1) : Len(q) = n - 1}}

\* string patterns without a leading modifier
BaseStringPatterns ==
    { <<"string">>, <<"number">>, <<"object">>, <<"array">>, <<"array", "number">>,
      <<"array", "optional", "number">>, <<"observable">>, <<"observable", "string">>,
      <<"array", "observable", "number">>, <<"date">>, <<"foo">>, <<"toString">>,
      <<"__proto__">>, <<"string", "number">>, <<"">>, <<"array", "">> }

\* the base patterns the modifier prefixes are put in front of
ModifiedBases == { <<"string">>, <<"array", "number">>, <<"observable">>, <<"foo">> }

StringPatterns ==
    { Str(b) : b \in BaseStringPatterns } \cup
    { Str(m \o b) : m \in ModifierPrefixes(MaxMods), b \in ModifiedBases }

ObjectPatterns ==
    { Obj(60, <<[k |-> <<"a", "b">>, p |-> S1("string")]>>),
      Obj(61, <<P("a", Obj(62, <<P("b", S1("string"))>>))>>),
      Obj(63, <<P("a", S1("string")), P("__elements", S1("string"))>>),
      Obj(64, <<P("__type", S1("object")), P("__value", S1("string")), P("a", S1("string"))>>),
      Obj(65, <<P("__allowedValues", Arr(66, <<Num(1), Num(2), Num(3)>>))>>),
      Obj(67, <<P("__type", S1("string")),
                P("__allowedValues", Arr(68, <<Num(5), S1("x"), ObsX>>))>>),
      Obj(69, <<P("__type", S1("number")), P("__allowedValues", Num(0))>>),
      Obj(70, <<P("__allowedValues", Null)>>),
      Obj(71, <<P("__allowedValues", S1("x"))>>),
      Obj(72, <<P("__type", S1("array")), P("__elements", S1("number"))>>),
      Obj(73, <<P("__type", S1("array")),
                P("__elements", Obj(74, <<P("__type", S1("number"))>>))>>),
      Obj(75, <<P("__type", S1("array")), P("__elements", S1("number")),
                P("__required", Bool(FALSE)), P("__nullable", Bool(TRUE))>>),
      Obj(76, <<P("__type", S1("array")), P("__elements", S1("number")),
                P("__allowedValues", Arr(77, <<Num(5)>>))>>),
      Obj(78, <<P("__type", S1("array"))>>),
      Obj(79, <<P("__type", S1("foo"))>>),
      Obj(80, <<P("__type", S1("toString")), P("__required", Bool(FALSE))>>),
      Obj(81, <<P("__type", S1("observable")), P("__value", S1("string"))>>),
      Obj(82, <<P("__type", S1("observable"))>>),
      Obj(83, <<P("__required", Bool(FALSE)), P("__nullable", Bool(TRUE)),
                [k |-> <<"a", "b">>, p |-> Obj(84, <<P("__type", S1("string"))>>)]>>),
      Obj(85, <<>>),
      Arr(86, <<S1("number"), S1("string")>>),
      Null }

Patterns == StringPatterns \cup ObjectPatterns \cup { Undefined, Num(5) }

\* the sample of check calls of which one is remembered and compared with a later one
RememberedValues == { Undefined, Num(5), ObsX, PlainFunction, Arr(13, <<ObsX, ObsFive>>) }
RememberedPatterns ==
    { S1("observable"), Str(<<"optional", "observable">>), Str(<<"array", "observable", "number">>),
      S1("string"), Obj(81, <<P("__type", S1("observable")), P("__value", S1("string"))>>) }

(***************************************************************************)
(* State machine: any sequence of extend and check calls.  `call` and      *)
(* `outcome` hold the call that has just ended and how it ended, until the *)
(* caller moves on.  everExtended, lastLib and mark record history:        *)
(* whether an extend call has returned normally, the library the last such *)
(* call was given, and one earlier check call with its outcome.            *)
(***************************************************************************)
NoCall == [op |-> "none", item |-> Undefined, pattern |-> Undefined, name |-> ""]
NoMark ==
    [set |-> FALSE, call |-> NoCall, outcome |-> Pass, ko |-> Undefined,
     registry |-> InitialTypeCheckers]

Init ==
    /\ koInstance = Undefined
    /\ typeCheckers = InitialTypeCheckers
    /\ call = NoCall
    /\ outcome = Pass
    /\ everExtended = FALSE
    /\ lastLib = Undefined
    /\ mark = NoMark

\* check(item, pattern, name)
Check(item, pattern, name) ==
    /\ call.op = "none"
    /\ call' = [op |-> "check", item |-> item, pattern |-> pattern, name |-> name]
    /\ outcome' = checkPattern(item, pattern, name)
    /\ UNCHANGED <<koInstance, typeCheckers, everExtended, lastLib, mark>>

\* extend(config)
Extend(config) ==
    /\ call.op = "none"
    /\ call' = [op |-> "extend", item |-> config, pattern |-> Undefined, name |-> ""]
    /\ outcome' = extendSuperSchema(config).outcome
    /\ koInstance' = extendSuperSchema(config).ko
    /\ everExtended' = (everExtended \/ outcome' = Pass)
    /\ lastLib' = IF outcome' = Pass THEN SuppliedLibrary(config) ELSE lastLib
    /\ mark' = IF outcome' = Pass THEN NoMark ELSE mark
    /\ UNCHANGED typeCheckers

\* the caller has seen the outcome and goes on
Return ==
    /\ call.op # "none"
    /\ call' = NoCall
    /\ outcome' = Pass
    /\ UNCHANGED <<koInstance, typeCheckers, everExtended, lastLib, mark>>

\* the caller goes on and keeps the check call and its outcome in mind, with
\* the handle and the registry as they are now
Remember ==
    /\ call.op = "check"
    /\ ~mark.set
    /\ mark' = [set |-> TRUE, call |-> call, outcome |-> outcome, ko |-> koInstance,
                registry |-> typeCheckers]
    /\ call' = NoCall
    /\ outcome' = Pass
    /\ UNCHANGED <<koInstance, typeCheckers, everExtended, lastLib>>

Next ==
    \/ \E config \in Configs : Extend(config)
    \/ \E item \in Values, pattern \in Patterns, name \in Names : Check(item, pattern, name)
    \/ Return

Spec == Init /\ [][Next]_vars

\* the same calls over the sample, with one earlier check call remembered
NextRemember ==
    \/ \E config \in Configs : Extend(config)
    \/ \E item \in RememberedValues, pattern \in RememberedPatterns : Check(item, pattern, "")
    \/ Return
    \/ Remember

SpecRemember == Init /\ [][NextRemember]_vars

(***************************************************************************)
(* Vocabulary of the properties: read off the call that has just ended     *)
(***************************************************************************)
IsCheck == call.op = "check"

\* the name the error messages of the call carry
DisplayName == IF call.name = "" THEN "configObject" ELSE call.name

IsConfigError(o) == o.kind = "BackendError" /\ o.code = "INVALID_CONFIG" /\ o.status = 500

IsPatternError(o) ==
    o.kind = "BackendError" /\ o.code = "INVALID_INPUT_PATTERN" /\ o.status = 400

Nullish == {Undefined, Null}

Modifiers == {"optional", "nullable"}

RECURSIVE LeadingModifiers(_)
\* the set of modifiers in front of the type token
LeadingModifiers(tokens) ==
    IF tokens = <<>> \/ Head(tokens) \notin Modifiers THEN {}
    ELSE {Head(tokens)} \cup LeadingModifiers(Tail(tokens))

RECURSIVE WithoutModifiers(_)
\* the tokens from the type token on
WithoutModifiers(tokens) ==
    IF tokens = <<>> \/ Head(tokens) \notin Modifiers THEN tokens
    ELSE WithoutModifiers(Tail(tokens))

HasOwnKey(x, key) == x.t = "object" /\ \E i \in 1..Len(x.v) : x.v[i].k = <<key>>

\* the type name a pattern asks for: the type token of a string pattern, the
\* __type of an object pattern
TypeNamesOf(pattern) ==
    CASE pattern.t = "string" ->
            IF WithoutModifiers(pattern.v) = <<>> THEN {}
            ELSE {Head(WithoutModifiers(pattern.v))}
      [] pattern.t = "object" ->
            IF Get(pattern, "__type").t = "string" THEN {ToStr(Get(pattern, "__type"))} ELSE {}
      [] OTHER -> {}

\* C1: every check call returns normally or raises one error that is a
\* configuration error (INVALID_CONFIG, 500) or a pattern error
\* (INVALID_INPUT_PATTERN, 400), whatever the value and the pattern are.
C1_OnlyTheTwoErrorKinds ==
    IsCheck => outcome = Pass \/ IsConfigError(outcome) \/ IsPatternError(outcome)

\* C2: when the type name a pattern asks for is not a registered type name,
\* check raises the configuration error "Unknown type: X", for every value.
C2_UnknownTypeIsConfigError ==
    IsCheck =>
        \A n \in TypeNamesOf(call.pattern) :
            n \notin DOMAIN typeCheckers => outcome = throwConfigError("Unknown type: " \o n)

\* a check that gets to the observable type check at the top of its pattern
ReachesObservableCheck ==
    /\ IsCheck
    /\ call.item \notin Nullish
    /\ \/ /\ call.pattern.t = "string"
          /\ WithoutModifiers(call.pattern.v) # <<>>
          /\ Head(WithoutModifiers(call.pattern.v)) = "observable"
       \/ /\ call.pattern.t = "object"
          /\ Get(call.pattern, "__type") = S1("observable")
          /\ ~Truthy(Get(call.pattern, "__allowedValues"))

\* ... and has a sub-pattern for the observable's contents
HasContentsPattern ==
    \/ /\ call.pattern.t = "string"
       /\ Len(WithoutModifiers(call.pattern.v)) > 1
       /\ Tail(WithoutModifiers(call.pattern.v)) # <<"">>
    \/ /\ call.pattern.t = "object"
       /\ Truthy(Get(call.pattern, "__value"))

NoKnockoutError ==
    throwConfigError("Observable checking is not possible because no knockout instance is given!")

NotObservableError == throwPatternError(DisplayName \o " has to be an observable!")

\* C3: in any sequence of extend and check calls, the error of the missing
\* library is raised only while no extend call has returned normally, and then
\* by every check that gets to the observable type check; once an extend call
\* has returned normally, the observable type check passes exactly when
\* isObservable of the library registered last says so, and raises
\* "<path> has to be an observable!" otherwise.
C3_ObservableFollowsLastExtend ==
    IsCheck =>
        /\ outcome = NoKnockoutError => ~everExtended
        /\ ReachesObservableCheck =>
              IF ~everExtended THEN outcome = NoKnockoutError
              ELSE IF Truthy(CallResult(Get(lastLib, "isObservable"), call.item))
              THEN outcome # NotObservableError /\ (~HasContentsPattern => outcome = Pass)
              ELSE outcome = NotObservableError

\* C3 witness: a plain function passes "observable" because the library
\* registered last is the stub, which the real knockout would have refused.
C3_Witness ==
    /\ IsCheck /\ everExtended /\ lastLib = StubLib
    /\ call.item = PlainFunction /\ call.pattern = S1("observable")
    /\ outcome = Pass

\* C4: extend raises a configuration error when config is not an object (null
\* included), when neither config.knockout nor config.ko yields a value and
\* when the library has no isObservable function; in every other case it
\* returns normally and the library is the handle.
C4_ExtendOutcome ==
    call.op = "extend" =>
        LET config == call.item
            lib == IF config.t \in {"object", "array", "date"} THEN SuppliedLibrary(config)
                   ELSE Undefined
        IN  IF Truthy(lib) /\ TypeOf(Get(lib, "isObservable")) = "function"
            THEN outcome = Pass /\ koInstance = lib
            ELSE IsConfigError(outcome)

\* C5: as long as no extend call returns normally after a check call, the
\* handle and the type registry stay what they were at that call, whatever
\* check calls and failed extend calls follow, and the same check call made
\* again has the same outcome.
C5_SameCallSameOutcome ==
    mark.set =>
        /\ koInstance = mark.ko
        /\ typeCheckers = mark.registry
        /\ IsCheck /\ call = mark.call => outcome = mark.outcome

\* C5 witness: a check of an observable made again after the library was
\* registered, with the outcome it had before.
C5_Witness ==
    /\ IsCheck /\ mark.set /\ call = mark.call /\ everExtended
    /\ call.item = ObsX /\ call.pattern = S1("observable")
    /\ outcome = Pass

\* C6: for a string pattern of leading modifiers M and a type token, undefined
\* passes if optional is in M and is "<name> is mandatory!" otherwise, null
\* passes if nullable is in M and is "<name> shouldn't be null!" otherwise, and
\* any other value has the outcome of the pattern without its modifiers.
C6_Modifiers ==
    IsCheck /\ call.pattern.t = "string" /\ WithoutModifiers(call.pattern.v) # <<>> =>
        IF call.item = Undefined
        THEN outcome = IF "optional" \in LeadingModifiers(call.pattern.v) THEN Pass
                       ELSE throwPatternError(DisplayName \o " is mandatory!")
        ELSE IF call.item = Null
        THEN outcome = IF "nullable" \in LeadingModifiers(call.pattern.v) THEN Pass
                       ELSE throwPatternError(DisplayName \o " shouldn't be null!")
        ELSE outcome = checkPattern(call.item, Str(WithoutModifiers(call.pattern.v)), call.name)

\* C6 witness: null against "optional nullable string" passes, the nullable
\* modifier standing behind another one.
C6_Witness ==
    /\ IsCheck /\ call.item = Null
    /\ call.pattern = Str(<<"optional", "nullable", "string">>)
    /\ outcome = Pass

\* C7: for an object pattern that has __allowedValues and a value neither
\* undefined nor null: a configuration error if __allowedValues is not a
\* sequence; else check passes iff the value strictly equals an element and
\* raises "... is not among the allowed ones!" if not, with no other check.
C7_AllowedValuesDecide ==
    IsCheck /\ call.item \notin Nullish /\ HasOwnKey(call.pattern, "__allowedValues") =>
        LET allowed == Get(call.pattern, "__allowedValues")
        IN  IF ~IsArray(allowed) THEN IsConfigError(outcome)
            ELSE IF \E i \in 1..Len(allowed.v) : StrictEquals(call.item, allowed.v[i])
            THEN outcome = Pass
            ELSE outcome = throwPatternError("The value of " \o DisplayName
                                             \o " is not among the allowed ones!")

ReservedControlKeys ==
    { <<"__type">>, <<"__required">>, <<"__nullable">>, <<"__elements">>,
      <<"__allowedValues">>, <<"__value">> }

RECURSIVE DottedWalk(_, _, _, _)
\* what C8 lets a walk through the segments end in.  A container that is null
\* has the object runtime type and no properties: the walk may refuse it as a
\* container or go on with an absent leaf.
DottedWalk(current, keys, sub, name) ==
    IF keys = <<>> THEN {checkPattern(current, sub, name)}
    ELSE IF TypeOf(current) # "object"
    THEN {throwPatternError(name \o " should have object type!")}
    ELSE IF current = Null
    THEN {throwPatternError(name \o " should have object type!"),
          checkPattern(Undefined, sub, name \o "." \o Join(keys, "."))}
    ELSE DottedWalk(Get(current, Head(keys)), Tail(keys), sub, name \o "." \o Head(keys))

\* C8: for an object pattern with the one key "k1.k2...kn" and sub-pattern s,
\* check walks the value through k1..kn: a container that is not of object
\* runtime type raises "<path so far> should have object type!", otherwise the
\* leaf is checked against s under the path name.k1...kn.
C8_DottedKeyWalk ==
    /\ IsCheck /\ call.item \notin Nullish
    /\ call.pattern.t = "object" /\ Len(call.pattern.v) = 1
    /\ call.pattern.v[1].k \notin ReservedControlKeys
    => outcome \in DottedWalk(call.item, call.pattern.v[1].k, call.pattern.v[1].p, DisplayName)

\* the element sub-pattern of an array-typed pattern, if it has one
ElementPatterns(pattern) ==
    CASE pattern.t = "string" ->
            IF pattern.v[1] = "array" /\ Len(pattern.v) > 1 /\ Tail(pattern.v) # <<"">>
            THEN {Str(Tail(pattern.v))} ELSE {}
      [] pattern.t = "object" ->
            IF Get(pattern, "__type") = S1("array") /\ Get(pattern, "__elements") # Undefined
            THEN {Get(pattern, "__elements")} ELSE {}
      [] OTHER -> {}

\* the outcome of element i (counted from 0) under the path suffixed "[i]"
ElementOutcome(item, sub, i) ==
    checkPattern(item.v[i + 1], sub, DisplayName \o "[" \o ToString(i) \o "]")

\* the error of the failing element with the lowest index, Pass if there is none
FirstElementError(item, sub) ==
    LET failing == {i \in 0..(Len(item.v) - 1) : ElementOutcome(item, sub, i) # Pass}
    IN  IF failing = {} THEN Pass
        ELSE ElementOutcome(item, sub, CHOOSE i \in failing : \A j \in failing : i <= j)

\* C9 as stated: for an array-typed pattern with an element sub-pattern, check
\* passes iff the value is an array and every element passes the sub-pattern,
\* and an array with a failing element raises the error of the failing element
\* with the lowest index.
C9_AsStated ==
    IsCheck =>
        \A sub \in ElementPatterns(call.pattern) :
            /\ outcome = Pass <=>
                  IsArray(call.item) /\ FirstElementError(call.item, sub) = Pass
            /\ IsArray(call.item) /\ FirstElementError(call.item, sub) # Pass =>
                  outcome = FirstElementError(call.item, sub)

\* C9 amended: for an array-typed pattern with an element sub-pattern and no
\* truthy __allowedValues, and a value that is neither undefined nor null: a
\* value that is not an array raises "<path> has to be an array!"; an array
\* passes iff every element passes the sub-pattern, and otherwise raises the
\* error of the failing element with the lowest index i under the path
\* suffixed "[i]".
C9_Amended ==
    IsCheck /\ call.item \notin Nullish /\ ~Truthy(Get(call.pattern, "__allowedValues")) =>
        \A sub \in ElementPatterns(call.pattern) :
            IF ~IsArray(call.item)
            THEN outcome = throwPatternError(DisplayName \o " has to be an array!")
            ELSE outcome = FirstElementError(call.item, sub)

\* C9 witness: [1, "a", true] against "array number" fails at index 1, the
\* first of its two failing elements.
C9_Witness ==
    /\ IsCheck /\ call.item = Arr(11, <<Num(1), S1("a"), Bool(TRUE)>>)
    /\ call.pattern = Str(<<"array", "number">>)
    /\ outcome = throwPatternError(DisplayName \o "[1] should have number type!")

RECURSIVE FieldPaths(_, _, _, _)
\* the check of every own key of the pattern that is not a reserved control
\* key, as a dotted field path, from the i-th key on
FieldPaths(item, pattern, name, i) ==
    IF i > Len(ForInKeys(pattern)) THEN Pass
    ELSE LET prop == ForInKeys(pattern)[i]
             r == IF prop \in ReservedControlKeys THEN Pass
                  ELSE checkShorthandPattern(item, prop, GetOwn(pattern, prop), name)
         IN  IF r # Pass THEN r
             ELSE FieldPaths(item, pattern, name, i + 1)

\* C10: when the effective type of an object pattern is object, the field
\* paths are exactly the own keys that are not reserved control keys (__type,
\* __required, __nullable, __elements, __allowedValues, __value); a reserved
\* key is never looked up in the value.
C10_ReservedKeysAreNotFields ==
    /\ IsCheck /\ call.pattern.t = "object"
    /\ TypeOf(call.item) = "object" /\ call.item # Null
    /\ ~Truthy(Get(call.pattern, "__allowedValues"))
    /\ Get(call.pattern, "__type") \in {Undefined, S1("object")}
    => outcome = FieldPaths(call.item, call.pattern, DisplayName, 1)

====
